---- MODULE Spec2Model ----
(***************************************************************************)
(* Model of the two localizers of ProbabilisticFiltersVPR:                *)
(*   src/src/models/SeqMatching.py          (class SeqMatching)            *)
(*   src/src/models/SingleImageMatching.py  (class SingleImageMatching)    *)
(*                                                                         *)
(* Python arrays are modelled as sequences: Python index i is element      *)
(* i + 1 of the sequence.  A float64 is modelled as a record: a finite     *)
(* value is a fixed-point integer counted in units of 1/Scale, and the     *)
(* non-finite values nan, +inf and -inf are kept apart, because the code   *)
(* lets them flow through sums, comparisons and divisions.  Velocities are *)
(* exact rationals <<numerator, denominator>>, so floor(i + vel * t) and     *)
(* the mean and standard deviation of a window are computed without the    *)
(* rounding of float64.                                                    *)
(***************************************************************************)
EXTENDS Integers, Sequences, FiniteSets

\* ---------------------------------------------------------------- bounds
MaxN == 5          \* largest number of reference descriptors
MaxL == 2          \* largest query window
MaxNumVel == 2     \* largest numVel
MaxM == 4          \* largest score vector handed directly to _locate_best_match
MaxPairM == 2      \* largest score vector of two compared _locate_best_match calls
Scale == 1000      \* fixed-point units per 1.0 of a finite float

VARIABLES
    map_poses,          \* self.map_poses
    map_descriptors,    \* self.map_descriptors
    wContrast,          \* self.wContrast
    numVel,             \* self.numVel
    vMin,               \* self.vMin
    vMax,               \* self.vMax
    matchWindow,        \* self.matchWindow
    enhance,            \* self.enhance
    pc,                 \* position of the running call
    query_descriptors,  \* argument of localize
    D,                  \* difference matrix (local of localize)
    template_scores,    \* score vector (local of localize / argument of _locate_best_match)
    ret,                \* outcome of the last call: value returned or exception raised
    prev_call           \* input and outcome of the call before the last one

vars == <<map_poses, map_descriptors, wContrast, numVel, vMin, vMax, matchWindow,
          enhance, pc, query_descriptors, D, template_scores, ret, prev_call>>

config == <<map_poses, map_descriptors, wContrast, numVel, vMin, vMax, matchWindow,
            enhance>>

\* ---------------------------------------------------------------- integers
Max2(a, b) == IF a >= b THEN a ELSE b
Min2(a, b) == IF a <= b THEN a ELSE b
Abs(a) == IF a < 0 THEN -a ELSE a

\* Python int(x / y) for y > 0: truncation toward zero.
TruncDiv(x, y) == IF x >= 0 THEN x \div y ELSE -((-x) \div y)

\* Python int(w / 2) of an int w.
HalfInt(w) == TruncDiv(w, 2)

RECURSIVE ISqrtIter(_, _, _)
ISqrtIter(n, lo, hi) ==
    IF lo >= hi THEN lo
    ELSE LET mid == (lo + hi + 1) \div 2
         IN  IF mid * mid <= n THEN ISqrtIter(n, mid, hi)
                               ELSE ISqrtIter(n, lo, mid - 1)

\* Largest r with r * r <= n (0 <= n < 2^31, so r <= 46340).
ISqrt(n) == ISqrtIter(n, 0, Min2(n, 46340))

RECURSIVE Gcd(_, _)
Gcd(a, b) == IF b = 0 THEN a ELSE Gcd(b, a % b)

\* ---------------------------------------------------------------- float64
Fin(n) == [k |-> "fin", v |-> n]
NaN == [k |-> "nan", v |-> 0]
PosInf == [k |-> "inf", v |-> 1]
NegInf == [k |-> "inf", v |-> -1]

IsFin(a) == a.k = "fin"
IsNaN(a) == a.k = "nan"
IsInf(a) == a.k = "inf"

\* a + b
FAdd(a, b) ==
    IF IsNaN(a) \/ IsNaN(b) THEN NaN
    ELSE IF IsInf(a) /\ IsInf(b) THEN (IF a.v = b.v THEN a ELSE NaN)
    ELSE IF IsInf(a) THEN a
    ELSE IF IsInf(b) THEN b
    ELSE Fin(a.v + b.v)

\* a < b (False whenever a nan is involved)
FLess(a, b) ==
    IF IsNaN(a) \/ IsNaN(b) THEN FALSE
    ELSE IF IsInf(a) THEN a.v = -1 /\ ~(IsInf(b) /\ b.v = -1)
    ELSE IF IsInf(b) THEN b.v = 1
    ELSE a.v < b.v

\* a > 0
FPositive(a) == FLess(Fin(0), a)

\* An exact quotient n / d of two finite floats, in lowest terms with d > 0.
Ratio(n, d) ==
    LET g == Gcd(Abs(n), Abs(d))
        s == IF d < 0 THEN -1 ELSE 1
    IN  [k |-> "fin", n |-> (s * n) \div g, d |-> (s * d) \div g]
QNaN == [k |-> "nan", n |-> 0, d |-> 0]
QInf(s) == [k |-> "inf", n |-> s, d |-> 0]

Sign(n) == IF n > 0 THEN 1 ELSE IF n < 0 THEN -1 ELSE 0

\* a / b of numpy float64 scalars: division by zero gives inf or nan, no exception.
FDiv(a, b) ==
    IF IsNaN(a) \/ IsNaN(b) THEN QNaN
    ELSE IF IsInf(a) /\ IsInf(b) THEN QNaN
    ELSE IF IsInf(a) THEN QInf(a.v * (IF b.v < 0 THEN -1 ELSE 1))
    ELSE IF IsInf(b) THEN Ratio(0, 1)
    ELSE IF b.v = 0 THEN (IF a.v = 0 THEN QNaN ELSE QInf(Sign(a.v)))
    ELSE Ratio(a.v, b.v)

\* p < q for two quotients (False whenever a nan is involved)
QLess(p, q) ==
    IF p.k = "nan" \/ q.k = "nan" THEN FALSE
    ELSE IF p.k = "inf" THEN p.n = -1 /\ ~(q.k = "inf" /\ q.n = -1)
    ELSE IF q.k = "inf" THEN q.n = 1
    ELSE p.n * q.d < q.n * p.d

\* ---------------------------------------------------------------- arrays
\* Python s[k] for 0 <= k < len(s).
At(s, k) == s[k + 1]

\* A slice bound k of a sequence of length n, as Python normalises it.
PySliceIdx(k, n) == IF k < 0 THEN Max2(k + n, 0) ELSE Min2(k, n)

\* Python s[lo:hi].
PySlice(s, lo, hi) == SubSeq(s, PySliceIdx(lo, Len(s)) + 1, PySliceIdx(hi, Len(s)))

\* Python indices that s[lo:hi] selects.
PySliceIndices(lo, hi, n) == {k \in 0..(n - 1) : PySliceIdx(lo, n) <= k /\ k < PySliceIdx(hi, n)}

\* ---------------------------------------------------------------- descriptors
\* Unit-norm descriptors the maps and queries are drawn from.
Descriptors == {<<1, 0>>, <<0, 1>>, <<-1, 0>>}

\* np.dot of two descriptors.
Dot(a, b) == a[1] * b[1] + a[2] * b[2]

\* np.sqrt(2 - 2 * dot): nan for a negative radicand.
DescriptorDist(a, b) ==
    LET r == 2 - 2 * Dot(a, b)
    IN  IF r < 0 THEN NaN ELSE Fin(ISqrt(r * Scale * Scale))

\* The pose stored for reference index i (poses are paired 1:1 with descriptors).
Pose(i) == <<"pose", i>>

\* ---------------------------------------------------------------- SeqMatching
\* _compute_diff_matrix: D[i, j] = sqrt(2 - 2 <ref_i, query_j>), shape (N, L).
ComputeDiffMatrix(refs, query) ==
    [i \in 1..Len(refs) |-> [j \in 1..Len(query) |-> DescriptorDist(refs[i], query[j])]]

\* idx_lower and idx_upper of _enhance_contrast for row i of nref rows.
IdxLower(i, w) == Max2(i - HalfInt(w), 0)
IdxUpper(i, w, nref) == Min2(i + HalfInt(w) + 1, nref - 1)

\* Rows that D[idx_lower:idx_upper, :] selects for row i.
ContrastWindow(i, w, nref) == PySliceIndices(IdxLower(i, w), IdxUpper(i, w, nref), nref)

RECURSIVE SumSeq(_)
SumSeq(s) == IF s = <<>> THEN 0 ELSE Head(s) + SumSeq(Tail(s))

\* (x - mean(win)) / std(win) for finite x and a window of finite values (all in
\* fixed-point units): nan over an empty window, nan or +-inf when std is zero.
LocalNormalise(x, win) ==
    LET n == Len(win)
        sum == SumSeq(win)
        sumsq == SumSeq([q \in 1..n |-> win[q] * win[q]])
        num == n * x - sum
        rad == n * sumsq - sum * sum
    IN  IF n = 0 THEN NaN
        ELSE IF rad = 0 THEN (IF num = 0 THEN NaN
                              ELSE IF num > 0 THEN PosInf ELSE NegInf)
        ELSE IF num >= 0 THEN Fin((Scale * num) \div ISqrt(rad))
        ELSE Fin(-((Scale * (-num)) \div ISqrt(rad)))

\* _enhance_contrast, on a matrix of finite values.
EnhanceContrast(Dm, w) ==
    LET nref == Len(Dm)
    IN  [i \in 1..nref |->
            LET rows == PySlice(Dm, IdxLower(i - 1, w), IdxUpper(i - 1, w, nref))
            IN  [j \in 1..Len(Dm[i]) |->
                    LocalNormalise(Dm[i][j].v, [q \in 1..Len(rows) |-> rows[q][j].v])]]

\* max_ind = int(N - 1 - vMax * L), with vMax = vmax[1] / vmax[2].
MaxInd(N, L, vmax) == TruncDiv((N - 1) * vmax[2] - vmax[1] * L, vmax[2])

\* Mutation of Velocity: np.linspace(..., endpoint=False), which never reaches vMax.
VelocityNoEndpoint(k, vmin, vmax, nv) ==
    <<vmin[1] * vmax[2] * (nv + 1) + k * (vmax[1] * vmin[2] - vmin[1] * vmax[2]),
      vmin[2] * vmax[2] * (nv + 1)>>

\* np.linspace(vMin, vMax, numVel + 1)[k], for numVel >= 1, as an exact quotient.
Velocity(k, vmin, vmax, nv) ==
    <<vmin[1] * vmax[2] * nv + k * (vmax[1] * vmin[2] - vmin[1] * vmax[2]),
      vmin[2] * vmax[2] * nv>>

\* floor(i + vel * t)
RowIndex(i, vel, t) == (i * vel[2] + vel[1] * t) \div vel[2]

\* Every row index the line search computes.
RowIndices(N, L, vmin, vmax, nv) ==
    {RowIndex(i, Velocity(k, vmin, vmax, nv), t) :
        i \in 0..(MaxInd(N, L, vmax) - 1), k \in 0..nv, t \in 0..(L - 1)}

\* D[r, t] of numpy: a negative r in -N..-1 reads row r + N.
ReadD(Dm, r, t) == IF r < 0 THEN Dm[r + Len(Dm) + 1][t + 1] ELSE Dm[r + 1][t + 1]

RECURSIVE PathSum(_, _, _, _)
\* Sum over t' in 0..t-1 of D[floor(i + vel * t'), t'].
PathSum(Dm, i, vel, t) ==
    IF t = 0 THEN Fin(0)
    ELSE FAdd(PathSum(Dm, i, vel, t - 1), ReadD(Dm, RowIndex(i, vel, t - 1), t - 1))

RECURSIVE OptD(_, _, _, _, _, _)
\* optD[i] after the loop has run over velocities 0..k-1.
OptD(Dm, i, k, vmin, vmax, nv) ==
    IF k = 0 THEN PosInf
    ELSE LET before == OptD(Dm, i, k - 1, vmin, vmax, nv)
             Dsum == PathSum(Dm, i, Velocity(k - 1, vmin, vmax, nv), Len(Dm[1]))
         IN  IF FLess(Dsum, before) THEN Dsum ELSE before

\* _score_ref_templates: the score vector, or the exception numpy raises.
ScoreRefTemplates(Dm, vmin, vmax, nv) ==
    LET N == Len(Dm)
        L == Len(Dm[1])
        max_ind == MaxInd(N, L, vmax)
    IN  IF max_ind < 0 THEN [status |-> "ValueError", val |-> <<>>]
        ELSE IF \E r \in RowIndices(N, L, vmin, vmax, nv) : r < -N \/ r >= N
             THEN [status |-> "IndexError", val |-> <<>>]
        ELSE [status |-> "return",
              val |-> [i \in 1..max_ind |-> OptD(Dm, i - 1, nv + 1, vmin, vmax, nv)]]

\* Mutation of ArgMin: the last smallest element instead of the first.
ArgMinLast(S) ==
    (CHOOSE i \in 1..Len(S) :
         /\ \A j \in 1..Len(S) : ~FLess(S[j], S[i])
         /\ \A j \in (i + 1)..Len(S) : FLess(S[i], S[j])) - 1

\* np.argmin: the first nan if there is one, else the first smallest element.
ArgMin(S) ==
    IF \E i \in 1..Len(S) : IsNaN(S[i])
    THEN (CHOOSE i \in 1..Len(S) : IsNaN(S[i]) /\ \A j \in 1..(i - 1) : ~IsNaN(S[j])) - 1
    ELSE (CHOOSE i \in 1..Len(S) :
              /\ \A j \in 1..Len(S) : ~FLess(S[j], S[i])
              /\ \A j \in 1..(i - 1) : FLess(S[i], S[j])) - 1

RECURSIVE PyMin(_)
\* Python's builtin min over a non-empty sequence: keep the first element unless a
\* later one compares smaller.
PyMin(s) ==
    IF Len(s) = 1 THEN s[1]
    ELSE LET cur == PyMin(SubSeq(s, 1, Len(s) - 1))
         IN  IF FLess(s[Len(s)], cur) THEN s[Len(s)] ELSE cur

\* Mutation of IWinU: the upper bound capped at len - 1, as in _enhance_contrast.
IWinUExcludingLast(iOpt, mw, M) == Min2(iOpt + HalfInt(mw), M - 1)

\* iWinL and iWinU of _locate_best_match.
IWinL(iOpt, mw) == Max2(iOpt - HalfInt(mw), 0)
IWinU(iOpt, mw, M) == Min2(iOpt + HalfInt(mw), M)

\* outside_scores = concatenate(template_scores[:iWinL], template_scores[iWinU:])
OutsideScores(S, mw) ==
    LET iOpt == ArgMin(S)
    IN  PySlice(S, 0, IWinL(iOpt, mw)) \o PySlice(S, IWinU(iOpt, mw, Len(S)), Len(S))

\* Mutation of Confidence: the branch for non-positive scores is left out.
ConfidenceNoSignBranch(best, optOutside) == FDiv(best, optOutside)

\* mu of _locate_best_match.
Confidence(best, optOutside) ==
    IF FPositive(optOutside) THEN FDiv(best, optOutside) ELSE FDiv(optOutside, best)

\* _locate_best_match: (iOpt, mu), or the ValueError of argmin / min over nothing.
LocateBestMatch(S, mw) ==
    IF Len(S) = 0 THEN [status |-> "ValueError", val |-> <<>>]
    ELSE IF OutsideScores(S, mw) = <<>> THEN [status |-> "ValueError", val |-> <<>>]
    ELSE [status |-> "return",
          val |-> <<ArgMin(S), Confidence(At(S, ArgMin(S)), PyMin(OutsideScores(S, mw)))>>]

\* ---------------------------------------------------------------- SingleImageMatching
\* localize_descriptor: (map_poses[idx], dists[idx]) with idx = argmin(dists).
LocalizeDescriptor(poses, refs, q) ==
    LET dists == [i \in 1..Len(refs) |-> DescriptorDist(refs[i], q)]
        idx == ArgMin(dists)
    IN  [status |-> "return", val |-> <<At(poses, idx), At(dists, idx)>>]

\* Mutation of SelectedQuery: the last element of the window.
SelectedQueryLast(query) == At(query, Len(query) - 1)

\* The element of the query window that SingleImageMatching.localize hands on.
SelectedQuery(query) == At(query, 0)

\* SingleImageMatching.localize
SingleLocalize(poses, refs, query) ==
    IF Len(query) = 0 THEN [status |-> "IndexError", val |-> <<>>]
    ELSE LocalizeDescriptor(poses, refs, SelectedQuery(query))

\* ---------------------------------------------------------------- inputs
\* Sequences over S with lengths lo..hi.
SeqsOf(S, lo, hi) == UNION {[1..n -> S] : n \in lo..hi}

\* Reference maps handed to the constructors.
RefMaps == SeqsOf({<<1, 0>>, <<-1, 0>>}, MaxN - 1, MaxN)
SingleRefMaps == SeqsOf(Descriptors, 1, MaxN - 1)

\* (vMin, vMax) pairs given on the command line, as exact quotients: the last two
\* are not 0 < vMin <= vMax.
VelocityPairs ==
    { <<<<1, 1>>, <<1, 1>>>>, <<<<1, 2>>, <<1, 1>>>>, <<<<1, 1>>, <<2, 1>>>>,
      <<<<2, 1>>, <<1, 1>>>>, <<<<-1, 1>>, <<1, 1>>>> }

\* (enhance, wContrast) pairs: wContrast keeps its command-line default when the
\* enhancement is off.
ContrastSettings == {<<FALSE, 10>>, <<TRUE, 1>>, <<TRUE, 3>>}

\* matchWindow values given to the constructor.
MatchWindows == {0, 2}

\* Query windows: negating every descriptor leaves D unchanged, so the first
\* descriptor of a window is fixed.
QueryWindows == {q \in SeqsOf({<<1, 0>>, <<-1, 0>>}, 1, MaxL) : q[1] = <<1, 0>>}

NoCall == [status |-> "none", val |-> <<>>]
NoPrev == [scores |-> <<>>, ret |-> NoCall]

\* ---------------------------------------------------------------- SeqMatching.localize
\* SeqMatching.__init__ stores its arguments; nothing is checked.
Init ==
    /\ map_descriptors \in RefMaps
    /\ map_poses = [i \in 1..Len(map_descriptors) |-> Pose(i - 1)]
    /\ \E vp \in VelocityPairs : vMin = vp[1] /\ vMax = vp[2]
    /\ numVel \in 1..MaxNumVel
    /\ \E cs \in ContrastSettings : enhance = cs[1] /\ wContrast = cs[2]
    /\ matchWindow \in MatchWindows
    /\ pc = "idle"
    /\ query_descriptors = <<>>
    /\ D = <<>>
    /\ template_scores = <<>>
    /\ ret = NoCall
    /\ prev_call = NoPrev

\* A caller enters localize(query_descriptors).
Localize(q) ==
    /\ pc \in {"idle", "done"}
    /\ pc' = "diff"
    /\ query_descriptors' = q
    /\ D' = <<>>
    /\ template_scores' = <<>>
    /\ ret' = NoCall
    /\ UNCHANGED <<config, prev_call>>

\* D = self._compute_diff_matrix(query_descriptors)
DiffStep ==
    /\ pc = "diff"
    /\ D' = ComputeDiffMatrix(map_descriptors, query_descriptors)
    /\ pc' = IF enhance THEN "enhance" ELSE "score"
    /\ UNCHANGED <<config, query_descriptors, template_scores, ret, prev_call>>

\* D = self._enhance_contrast(D)
EnhanceStep ==
    /\ pc = "enhance"
    /\ D' = EnhanceContrast(D, wContrast)
    /\ pc' = "score"
    /\ UNCHANGED <<config, query_descriptors, template_scores, ret, prev_call>>

\* template_scores = self._score_ref_templates(D); an exception leaves localize.
ScoreStep ==
    /\ pc = "score"
    /\ LET out == ScoreRefTemplates(D, vMin, vMax, numVel)
       IN  IF out.status = "return"
           THEN /\ template_scores' = out.val
                /\ pc' = "select"
                /\ ret' = ret
           ELSE /\ template_scores' = template_scores
                /\ pc' = "done"
                /\ ret' = out
    /\ UNCHANGED <<config, query_descriptors, D, prev_call>>

\* ind, score = self._locate_best_match(template_scores);
\* return self.map_poses[ind], score
SelectStep ==
    /\ pc = "select"
    /\ LET out == LocateBestMatch(template_scores, matchWindow)
       IN  IF out.status = "return"
           THEN ret' = [status |-> "return",
                        val |-> <<At(map_poses, out.val[1]), out.val[2]>>]
           ELSE ret' = out
    /\ pc' = "done"
    /\ UNCHANGED <<config, query_descriptors, D, template_scores, prev_call>>

Next ==
    \/ \E q \in QueryWindows : Localize(q)
    \/ DiffStep
    \/ EnhanceStep
    \/ ScoreStep
    \/ SelectStep

Spec == Init /\ [][Next]_vars

\* ---------------------------------------------------------------- _locate_best_match, called directly
\* Finite scores a score vector is drawn from (fixed-point units).
ScoreValues == {Fin(v * Scale) : v \in {-2, -1, 0, 1, 2, 3}}

\* matchWindow values of the matchers whose selector is called directly.
SelectMatchWindows == {-2, 0, 1, 2, 3, 4}

\* A SeqMatching instance with the given matchWindow and the other arguments at
\* fixed values; no call has been made.
Constructed(mw) ==
    /\ map_descriptors = <<<<1, 0>>>>
    /\ map_poses = <<Pose(0)>>
    /\ vMin = <<1, 1>>
    /\ vMax = <<1, 1>>
    /\ numVel = 1
    /\ enhance = FALSE
    /\ wContrast = 10
    /\ matchWindow = mw
    /\ pc = "idle"
    /\ query_descriptors = <<>>
    /\ D = <<>>
    /\ template_scores = <<>>
    /\ ret = NoCall
    /\ prev_call = NoPrev

InitSelect == \E mw \in SelectMatchWindows : Constructed(mw)

\* One call self._locate_best_match(S) on the fresh matcher.
CallLocateBestMatch(S) ==
    /\ pc = "idle"
    /\ template_scores' = S
    /\ ret' = LocateBestMatch(S, matchWindow)
    /\ pc' = "done"
    /\ UNCHANGED <<config, query_descriptors, D, prev_call>>

NextSelect == \E S \in SeqsOf(ScoreValues, 0, MaxM) : CallLocateBestMatch(S)

SpecSelect == InitSelect /\ [][NextSelect]_vars

\* Two calls of self._locate_best_match on one matcher, the first one remembered.

InitCompare == \E mw \in {1, 2, 3} : Constructed(mw)

FirstCall(S) == CallLocateBestMatch(S)

SecondCall(S) ==
    /\ pc = "done"
    /\ prev_call = NoPrev
    /\ template_scores' = S
    /\ ret' = LocateBestMatch(S, matchWindow)
    /\ prev_call' = [scores |-> template_scores, ret |-> ret]
    /\ UNCHANGED <<config, pc, query_descriptors, D>>

NextCompare ==
    \/ \E S \in SeqsOf(ScoreValues, 1, MaxPairM) : FirstCall(S)
    \/ \E S \in SeqsOf(ScoreValues, 1, MaxPairM) : SecondCall(S)

SpecCompare == InitCompare /\ [][NextCompare]_vars

\* ---------------------------------------------------------------- SingleImageMatching.localize
\* SingleImageMatching.__init__ stores the map; the SeqMatching fields do not exist.
InitSingle ==
    /\ map_descriptors \in SingleRefMaps
    /\ map_poses = [i \in 1..Len(map_descriptors) |-> Pose(i - 1)]
    /\ vMin = <<1, 1>>
    /\ vMax = <<1, 1>>
    /\ numVel = 1
    /\ enhance = FALSE
    /\ wContrast = 10
    /\ matchWindow = 20
    /\ pc = "idle"
    /\ query_descriptors = <<>>
    /\ D = <<>>
    /\ template_scores = <<>>
    /\ ret = NoCall
    /\ prev_call = NoPrev

\* One call localize(query_descriptors).
CallSingleLocalize(q) ==
    /\ pc = "idle"
    /\ query_descriptors' = q
    /\ ret' = SingleLocalize(map_poses, map_descriptors, q)
    /\ pc' = "done"
    /\ UNCHANGED <<config, D, template_scores, prev_call>>

NextSingle == \E q \in SeqsOf(Descriptors, 0, MaxL) : CallSingleLocalize(q)

SpecSingle == InitSingle /\ [][NextSingle]_vars

\* ---------------------------------------------------------------- notions of the specification
NRef == Len(map_descriptors)
LQuery == Len(query_descriptors)

\* ceil(x / y) for y > 0
CeilDiv(x, y) == -((-x) \div y)

\* maxIndex = N - 1 - ceil(vMax * L)
SpecMaxIndex == NRef - 1 - CeilDiv(vMax[1] * LQuery, vMax[2])

\* 0 < vMin <= vMax
VelocitiesValid == vMin[1] > 0 /\ vMin[1] * vMax[2] <= vMax[1] * vMin[2]

\* N > 0, 0 < L <= N, 0 < vMin <= vMax, numVel >= 1, maxIndex >= 1
ScoringConfigValid ==
    /\ NRef > 0 /\ 0 < LQuery /\ LQuery <= NRef
    /\ VelocitiesValid /\ numVel >= 1
    /\ SpecMaxIndex >= 1

\* The configuration errors of the taxonomy; those that depend on L are known once
\* a query window has been handed over.
InvalidConfig ==
    \/ ~(vMin[1] * vMax[2] <= vMax[1] * vMin[2])
    \/ wContrast <= 0
    \/ matchWindow <= 0
    \/ /\ pc # "idle"
       /\ \/ matchWindow >= SpecMaxIndex
          \/ LQuery > NRef
          \/ SpecMaxIndex < 1

\* The k-th of numVel + 1 evenly spaced velocities from vMin to vMax, both included.
EvenVelocity(k) ==
    <<(numVel - k) * vMin[1] * vMax[2] + k * vMax[1] * vMin[2], numVel * vMin[2] * vMax[2]>>

\* sum over t in 0..L-1 of D[floor(i + v * t), t], for a finite D and rows in range
PathCost(i, v) ==
    SumSeq([t \in 1..LQuery |-> D[((i * v[2] + v[1] * (t - 1)) \div v[2]) + 1][t].v])

DFinite == \A i \in 1..Len(D) : \A j \in 1..Len(D[i]) : IsFin(D[i][j])

\* ---------------------------------------------------------------- claims: VelocitySearchScorer
\* C1, first half: under a valid configuration every row the line search visits,
\* floor(i + v * t), lies in 0..N-1.
C1_InRangeWhenValid ==
    (pc # "idle" /\ ScoringConfigValid)
        => \A r \in RowIndices(NRef, LQuery, vMin, vMax, numVel) : 0 <= r /\ r <= NRef - 1

\* C1, second half: the scorer checks the bound instead of assuming it, so it never
\* returns scores after visiting a row outside 0..N-1.
C1_ReadsChecked ==
    pc = "select"
        => \A r \in RowIndices(NRef, LQuery, vMin, vMax, numVel) : 0 <= r /\ r <= NRef - 1

\* C1: every visited row floor(i + v * t) lies in 0..N-1 under a valid configuration,
\* and the scorer checks this bound rather than assuming it.
C1_RowsInRangeAndChecked == C1_InRangeWhenValid /\ C1_ReadsChecked

\* C2: whenever maxIndex = N - 1 - ceil(vMax * L) < 1, the matcher fails: the scorer
\* never returns a score vector and localize never returns a (pose, confidence).
C2_FailsWhenNoCandidate ==
    (pc # "idle" /\ SpecMaxIndex < 1) => (pc # "select" /\ ret.status # "return")

\* C3: an invalid configuration is reported before any matrix work: no difference
\* matrix is built, no enhancement or scoring starts, no confidence is returned.
C3_InvalidConfigFailsEagerly ==
    InvalidConfig => (pc \in {"idle", "diff", "done"} /\ D = <<>> /\ ret.status # "return")

\* C6: under a valid configuration and a finite D the returned score vector has
\* length maxIndex, and score[i] is the least path cost over the numVel + 1 evenly
\* spaced velocities from vMin to vMax.
C6_ScoresAreBestPathCosts ==
    (pc = "select" /\ ScoringConfigValid /\ DFinite)
        => /\ Len(template_scores) = SpecMaxIndex
           /\ \A i \in 0..(SpecMaxIndex - 1) :
                LET costs == {PathCost(i, EvenVelocity(k)) : k \in 0..numVel}
                    score == At(template_scores, i)
                IN  /\ IsFin(score)
                    /\ score.v \in costs
                    /\ \A c \in costs : score.v <= c

\* C6 witness: a valid call with at least two candidates in which some score is
\* strictly below the path cost of the first velocity vMin.
C6_Witness ==
    /\ pc = "select" /\ ScoringConfigValid /\ DFinite
    /\ SpecMaxIndex >= 2
    /\ \E i \in 0..(SpecMaxIndex - 1) :
           /\ IsFin(At(template_scores, i))
           /\ At(template_scores, i).v < PathCost(i, EvenVelocity(0))

\* ---------------------------------------------------------------- claims: ContrastEnhancer
\* C9: for 0 < wContrast < N every row's normalisation window is non-empty and
\* contains the row itself.
C9_WindowContainsRow ==
    (pc = "score" /\ enhance /\ 0 < wContrast /\ wContrast < NRef)
        => \A i \in 0..(NRef - 1) : i \in ContrastWindow(i, wContrast, NRef)

\* ---------------------------------------------------------------- notions of the specification: BestMatchSelector
\* The lowest index attaining min(S), for a non-empty vector of finite scores.
LowestArgMin(S) ==
    CHOOSE i \in 0..(Len(S) - 1) :
        /\ \A j \in 0..(Len(S) - 1) : At(S, i).v <= At(S, j).v
        /\ \A j \in 0..(i - 1) : At(S, j).v > At(S, i).v

\* lo = max(iOpt - matchWindow/2, 0) and hi = min(iOpt + matchWindow/2, M)
ExclLo(iOpt, mw) == IF iOpt - HalfInt(mw) > 0 THEN iOpt - HalfInt(mw) ELSE 0
ExclHi(iOpt, mw, M) == IF iOpt + HalfInt(mw) < M THEN iOpt + HalfInt(mw) ELSE M

\* Indices of S[0:lo] and S[hi:M]: the outside comparison set around index iOpt.
OutsideSet(iOpt, mw, M) ==
    {j \in 0..(M - 1) : j < ExclLo(iOpt, mw) \/ j >= ExclHi(iOpt, mw, M)}

\* min of the scores at a non-empty set of indices
MinOver(S, idx) == CHOOSE m \in {At(S, j).v : j \in idx} : \A j \in idx : m <= At(S, j).v

\* confidence = S[iOpt] / outsideMin if outsideMin > 0, otherwise outsideMin / S[iOpt]
SpecConfidence(best, outsideMin) ==
    IF outsideMin > 0 THEN FDiv(Fin(best), Fin(outsideMin))
                      ELSE FDiv(Fin(outsideMin), Fin(best))

\* ---------------------------------------------------------------- claims: BestMatchSelector
\* C4: if the exclusion window [lo, hi) covers all of 0..M-1, _locate_best_match ends
\* in an error (the ValueError raised over the empty outside set) and returns no pair.
C4_CoveredVectorFails ==
    LET S == template_scores
        M == Len(S)
    IN  (pc = "done" /\ (M = 0 \/ OutsideSet(LowestArgMin(S), matchWindow, M) = {}))
            => ret.status = "ValueError"

\* C4 witness: a call on a vector of two or more scores that the window covers whole.
C4_Witness ==
    LET S == template_scores
        M == Len(S)
    IN  /\ pc = "done" /\ M >= 2
        /\ OutsideSet(LowestArgMin(S), matchWindow, M) = {}
        /\ ret.status = "ValueError"

\* C5: with a non-empty outside set, _locate_best_match returns iOpt, the lowest
\* index attaining min(S), and confidence S[iOpt]/outsideMin if outsideMin > 0,
\* otherwise outsideMin/S[iOpt], outsideMin being the least score outside [lo, hi).
C5_ReturnsLowestArgMinAndRatio ==
    LET S == template_scores
        M == Len(S)
    IN  (pc = "done" /\ M > 0 /\ OutsideSet(LowestArgMin(S), matchWindow, M) # {})
            => LET iOpt == LowestArgMin(S)
                   outsideMin == MinOver(S, OutsideSet(iOpt, matchWindow, M))
               IN  /\ ret.status = "return"
                   /\ ret.val[1] = iOpt
                   /\ ret.val[2] = SpecConfidence(At(S, iOpt).v, outsideMin)

\* C5 witness: a returned pair for a vector whose minimum is attained twice and whose
\* outside set has scores on both sides of the window.
C5_Witness ==
    LET S == template_scores
        M == Len(S)
    IN  /\ pc = "done" /\ M > 0 /\ ret.status = "return"
        /\ \E j \in 0..(M - 1) : j # ret.val[1] /\ At(S, j) = At(S, ret.val[1])
        /\ ExclLo(ret.val[1], matchWindow) > 0
        /\ ExclHi(ret.val[1], matchWindow, M) < M

\* C10: for every matchWindow > 0 the exclusion window [iWinL, iWinU) contains iOpt,
\* so the outside comparison set never holds the best match itself.
C10_WindowContainsBest ==
    LET S == template_scores
        M == Len(S)
    IN  (pc = "done" /\ M > 0 /\ matchWindow > 0)
            => /\ IWinL(ArgMin(S), matchWindow) <= ArgMin(S)
               /\ ArgMin(S) < IWinU(ArgMin(S), matchWindow, M)

\* ---------------------------------------------------------------- claims: confidence and the gap
\* The two compared vectors have the same length and the same single minimum at
\* index k, and the least outside score of the second is strictly the larger.
GapWidens(S1, S2, k, mw) ==
    /\ Len(S1) = Len(S2)
    /\ k < Len(S1)
    /\ \A j \in 0..(Len(S1) - 1) : j # k => At(S1, k).v < At(S1, j).v
    /\ \A j \in 0..(Len(S2) - 1) : j # k => At(S2, k).v < At(S2, j).v
    /\ At(S1, k) = At(S2, k)
    /\ OutsideSet(k, mw, Len(S1)) # {}
    /\ MinOver(S2, OutsideSet(k, mw, Len(S2))) > MinOver(S1, OutsideSet(k, mw, Len(S1)))

\* Both calls return iOpt = k and the second confidence is strictly the smaller.
MoreConfident(r1, r2, k) ==
    /\ r1.status = "return" /\ r2.status = "return"
    /\ r1.val[1] = k /\ r2.val[1] = k
    /\ QLess(r2.val[2], r1.val[2])

\* C8 as stated: whenever the gap widens, iOpt = k for both vectors and the
\* confidence strictly decreases.
C8_ConfidenceDecreasesWithGap ==
    prev_call # NoPrev
        => \A k \in 0..(Len(template_scores) - 1) :
              GapWidens(prev_call.scores, template_scores, k, matchWindow)
                  => MoreConfident(prev_call.ret, ret, k)

\* The minimum is strictly positive, or it is strictly negative and the first
\* vector's least outside score is not positive.
RatioMonotone(S1, k, mw) ==
    \/ At(S1, k).v > 0
    \/ At(S1, k).v < 0 /\ MinOver(S1, OutsideSet(k, mw, Len(S1))) <= 0

\* C8 amended: the confidence strictly decreases as the gap widens provided the
\* common minimum is strictly positive, or strictly negative with the first
\* vector's least outside score <= 0.
C8_ConfidenceDecreasesWithGapAmended ==
    prev_call # NoPrev
        => \A k \in 0..(Len(template_scores) - 1) :
              (/\ GapWidens(prev_call.scores, template_scores, k, matchWindow)
               /\ RatioMonotone(prev_call.scores, k, matchWindow))
                  => MoreConfident(prev_call.ret, ret, k)

\* C8 witness: two calls with a positive common minimum and a widened gap, the second
\* confidence strictly below the first.
C8_Witness ==
    /\ prev_call # NoPrev
    /\ \E k \in 0..(Len(template_scores) - 1) :
          /\ GapWidens(prev_call.scores, template_scores, k, matchWindow)
          /\ At(prev_call.scores, k).v > 0
          /\ MoreConfident(prev_call.ret, ret, k)

\* ---------------------------------------------------------------- claims: SingleImageMatcher
\* (pose, distance) of the reference nearest to descriptor q, lowest index on ties.
NearestReference(q) ==
    LET idx == CHOOSE i \in 1..NRef :
                   /\ \A j \in 1..NRef :
                        DescriptorDist(map_descriptors[i], q).v <= DescriptorDist(map_descriptors[j], q).v
                   /\ \A j \in 1..(i - 1) :
                        DescriptorDist(map_descriptors[j], q).v > DescriptorDist(map_descriptors[i], q).v
    IN  <<Pose(idx - 1), DescriptorDist(map_descriptors[idx], q)>>

\* C7 as stated: localize returns the pose and distance of the reference nearest to
\* the last (most recent) descriptor of the window.
C7_UsesMostRecentDescriptor ==
    (pc = "done" /\ LQuery >= 1)
        => /\ ret.status = "return"
           /\ ret.val = NearestReference(query_descriptors[LQuery])

\* C7 amended: localize returns the pose and distance of the reference nearest to the
\* first descriptor of the window (index 0); the other descriptors have no effect.
C7_UsesFirstDescriptor ==
    (pc = "done" /\ LQuery >= 1)
        => /\ ret.status = "return"
           /\ ret.val = NearestReference(query_descriptors[1])

\* C7 witness: a window of two or more descriptors whose first and last descriptors
\* have different nearest references, answered from the first.
C7_Witness ==
    /\ pc = "done" /\ LQuery >= 2
    /\ NearestReference(query_descriptors[1]) # NearestReference(query_descriptors[LQuery])
    /\ ret.status = "return"
    /\ ret.val = NearestReference(query_descriptors[1])

====
